---- MODULE Spec2Model ----
(***************************************************************************)
(* State-machine model of the draft server in src/server.js: the Socket.IO *)
(* handlers (auth:login, room:join, room:leave, config:update,             *)
(* draft:start, draft:ban, draft:pick, draft:reset, disconnect) acting on  *)
(* the module-level state connectedUsers, draftRoom, draftConfig and       *)
(* currentDraftState, and the transition function advanceDraftState.       *)
(*                                                                         *)
(* Node.js runs each handler to completion, so one handler is one action.  *)
(* The messages a handler emits are outputs, not state: the error a        *)
(* draft:ban or draft:pick is answered with is the value of BanCheck or    *)
(* PickCheck, and a handler that returns early leaves every variable       *)
(* unchanged.                                                              *)
(***************************************************************************)
EXTENDS Integers, Sequences, FiniteSets

\* ------------------------------------------------------------------ bounds
\* Clients are 1..NumClients: client k is the browser of Discord user k, its
\* socket has id k, and a disconnected id stands for the client's next
\* connection when it is used again.
NumClients == 2
\* config:update draws bansPhase1 and bansPhase2 from 0..MaxBans.
MaxBans == 1
\* config:update draws balanceBans from 0..MaxBalanceBans.
MaxBalanceBans == 1

Sockets == 1..NumClients
\* The discord id client sock presents in auth:login (its OAuth identity).
UserOf(sock) == sock
Players == {1, 2}
Slots == {"player1", "player2"}

\* ------------------------------------------------------------- constants
\* The per-player pick quota of pick1 and pick2, a literal of advanceDraftState.
PickQuota == 3

\* The error messages of the handlers, named after the error they report.
NotAPlayer == "Vous n'etes pas un joueur"
NoActiveSession == "La draft n'a pas commence"
NotYourTurn == "Ce n'est pas votre tour"
WrongPhaseKind == "Ce n'est pas une phase de ban/pick"
ItemAlreadyBanned == "Ce personnage est (deja) banni"
ItemAlreadyPicked == "Ce personnage est deja selectionne"
\* The value of a check chain that lets the attempt through.
Accepted == "ok"

\* ------------------------------------------------------------------ state
VARIABLES
    connectedUsers,      \* socket id -> discord id of the authenticated user, 0 if none
    draftRoom,           \* [player1, player2]: the two seats
    draftConfig,         \* the fields of draftConfig that advanceDraftState reads
    currentDraftState,   \* the session, NullDraftState when there is none
    configChanged        \* history: draftConfig was modified since the last draft:started

vars == <<connectedUsers, draftRoom, draftConfig, currentDraftState, configChanged>>

\* No user behind a socket (connectedUsers.get(...) is undefined).
NoUser == 0
\* An empty seat (null).
NullSeat == [discordId |-> 0, socketId |-> 0]
\* A counter object { player1: 0, player2: 0 }.
ZeroCount == [player1 |-> 0, player2 |-> 0]

\* currentDraftState = null.
NullDraftState ==
    [phase |-> "null", currentPlayer |-> 0, bans |-> <<>>, picks |-> <<>>,
     player1Picks |-> <<>>, player2Picks |-> <<>>,
     currentPhase1BanCount |-> ZeroCount, currentPhase2BanCount |-> ZeroCount,
     currentPick1Count |-> ZeroCount, currentPick2Count |-> ZeroCount,
     balanceBansUsed |-> 0]

\* The object draft:start assigns to currentDraftState (timerStartedAt, a
\* wall-clock stamp nothing reads, is left out).
FreshDraftState ==
    [phase |-> "ban1", currentPlayer |-> 1, bans |-> <<>>, picks |-> <<>>,
     player1Picks |-> <<>>, player2Picks |-> <<>>,
     currentPhase1BanCount |-> ZeroCount, currentPhase2BanCount |-> ZeroCount,
     currentPick1Count |-> ZeroCount, currentPick2Count |-> ZeroCount,
     balanceBansUsed |-> 0]

\* The initial draftConfig (gameMode and the timer fields, which no handler
\* reads, are left out).
DefaultConfig ==
    [bansPhase1 |-> 1, bansPhase2 |-> 1, balanceBans |-> 0, balanceBansPlayer |-> 1]

\* The configurations a config:update may leave behind.
Configs ==
    [bansPhase1 : 0..MaxBans, bansPhase2 : 0..MaxBans,
     balanceBans : 0..MaxBalanceBans, balanceBansPlayer : Players]

\* ---------------------------------------------------------------- helpers
\* cnt[`player${n}`]
Count(cnt, n) == IF n = 1 THEN cnt.player1 ELSE cnt.player2
\* cnt[`player${n}`]++
Incr(cnt, n) ==
    IF n = 1 THEN [cnt EXCEPT !.player1 = @ + 1] ELSE [cnt EXCEPT !.player2 = @ + 1]

\* The character ids of a sequence of ban or pick records.
IdsOf(records) == {records[i].characterId : i \in 1..Len(records)}

\* getPlayerNumber(discordId): 1, 2 or 0 for null.
getPlayerNumber(discordId) ==
    IF draftRoom.player1 # NullSeat /\ draftRoom.player1.discordId = discordId THEN 1
    ELSE IF draftRoom.player2 # NullSeat /\ draftRoom.player2.discordId = discordId THEN 2
    ELSE 0

\* advanceBan1 with the wrong phase name on completion: ban1 is followed by
\* ban2, and pick1 is skipped.
advanceBan1_ToBan2(s, cfg) ==
    LET p1Done ==
            s.currentPhase1BanCount.player1 >=
                cfg.bansPhase1 + (IF cfg.balanceBansPlayer = 1 THEN cfg.balanceBans ELSE 0)
        p2Done ==
            s.currentPhase1BanCount.player2 >=
                cfg.bansPhase1 + (IF cfg.balanceBansPlayer = 2 THEN cfg.balanceBans ELSE 0)
        flipped == IF s.currentPlayer = 1 THEN 2 ELSE 1
    IN  IF p1Done /\ p2Done
        THEN [s EXCEPT !.phase = "ban2", !.currentPlayer = 1]
        ELSE [s EXCEPT !.currentPlayer =
                 IF flipped = 1 /\ p1Done THEN 2
                 ELSE IF flipped = 2 /\ p2Done THEN 1
                 ELSE flipped]

\* advanceBan1 that forgets the balance bans: a player is done after
\* bansPhase1 bans.
advanceBan1_NoBalance(s, cfg) ==
    LET p1Done == s.currentPhase1BanCount.player1 >= cfg.bansPhase1
        p2Done == s.currentPhase1BanCount.player2 >= cfg.bansPhase1
        flipped == IF s.currentPlayer = 1 THEN 2 ELSE 1
    IN  IF p1Done /\ p2Done
        THEN [s EXCEPT !.phase = "pick1", !.currentPlayer = 1]
        ELSE [s EXCEPT !.currentPlayer =
                 IF flipped = 1 /\ p1Done THEN 2
                 ELSE IF flipped = 2 /\ p2Done THEN 1
                 ELSE flipped]

\* advanceBan1 without the skip of a player who is done: the turn just flips.
advanceBan1_NoSkip(s, cfg) ==
    LET p1Done ==
            s.currentPhase1BanCount.player1 >=
                cfg.bansPhase1 + (IF cfg.balanceBansPlayer = 1 THEN cfg.balanceBans ELSE 0)
        p2Done ==
            s.currentPhase1BanCount.player2 >=
                cfg.bansPhase1 + (IF cfg.balanceBansPlayer = 2 THEN cfg.balanceBans ELSE 0)
    IN  IF p1Done /\ p2Done
        THEN [s EXCEPT !.phase = "pick1", !.currentPlayer = 1]
        ELSE [s EXCEPT !.currentPlayer = IF s.currentPlayer = 1 THEN 2 ELSE 1]

\* advanceDraftState, case "ban1".
advanceBan1(s, cfg) ==
    LET p1Bans == s.currentPhase1BanCount.player1
        p2Bans == s.currentPhase1BanCount.player2
        totalBansNeeded ==
            cfg.bansPhase1 + (IF cfg.balanceBansPlayer = 1 THEN cfg.balanceBans ELSE 0)
        p1Done ==
            p1Bans >= (IF cfg.balanceBansPlayer = 1 THEN totalBansNeeded ELSE cfg.bansPhase1)
        p2Done ==
            p2Bans >= (IF cfg.balanceBansPlayer = 2
                       THEN cfg.bansPhase1 + cfg.balanceBans ELSE cfg.bansPhase1)
        flipped == IF s.currentPlayer = 1 THEN 2 ELSE 1
    IN  IF p1Done /\ p2Done
        THEN [s EXCEPT !.phase = "pick1", !.currentPlayer = 1]
        ELSE [s EXCEPT !.currentPlayer =
                 IF flipped = 1 /\ p1Done THEN 2
                 ELSE IF flipped = 2 /\ p2Done THEN 1
                 ELSE flipped]

\* advancePick1 with a wrong entry in the turn table: after three picks the
\* turn goes to player 2 instead of player 1.
advancePick1_BadTable(s) ==
    LET p1Picks == s.currentPick1Count.player1
        p2Picks == s.currentPick1Count.player2
        totalPicks == p1Picks + p2Picks
    IN  IF p1Picks >= PickQuota /\ p2Picks >= PickQuota
        THEN [s EXCEPT !.phase = "ban2", !.currentPlayer = 1]
        ELSE [s EXCEPT !.currentPlayer =
                 IF totalPicks = 0 THEN 1
                 ELSE IF totalPicks = 1 THEN 2
                 ELSE IF totalPicks = 2 THEN 2
                 ELSE IF totalPicks = 3 THEN 2
                 ELSE IF totalPicks = 4 THEN 1
                 ELSE IF totalPicks = 5 THEN 2
                 ELSE @]

\* advanceDraftState, case "pick1".
advancePick1(s) ==
    LET p1Picks == s.currentPick1Count.player1
        p2Picks == s.currentPick1Count.player2
        totalPicks == p1Picks + p2Picks
    IN  IF p1Picks >= PickQuota /\ p2Picks >= PickQuota
        THEN [s EXCEPT !.phase = "ban2", !.currentPlayer = 1]
        ELSE [s EXCEPT !.currentPlayer =
                 IF totalPicks = 0 THEN 1
                 ELSE IF totalPicks = 1 THEN 2
                 ELSE IF totalPicks = 2 THEN 2
                 ELSE IF totalPicks = 3 THEN 1
                 ELSE IF totalPicks = 4 THEN 1
                 ELSE IF totalPicks = 5 THEN 2
                 ELSE @]

\* advanceBan2 that hands the first turn of pick2 to player 1.
advanceBan2_Pick2StartsWith1(s, cfg) ==
    LET p1Bans == s.currentPhase2BanCount.player1
        p2Bans == s.currentPhase2BanCount.player2
        flipped == IF s.currentPlayer = 1 THEN 2 ELSE 1
    IN  IF p1Bans >= cfg.bansPhase2 /\ p2Bans >= cfg.bansPhase2
        THEN [s EXCEPT !.phase = "pick2", !.currentPlayer = 1]
        ELSE [s EXCEPT !.currentPlayer =
                 IF flipped = 1 /\ p1Bans >= cfg.bansPhase2 THEN 2
                 ELSE IF flipped = 2 /\ p2Bans >= cfg.bansPhase2 THEN 1
                 ELSE flipped]

\* advanceDraftState, case "ban2".
advanceBan2(s, cfg) ==
    LET p1Bans == s.currentPhase2BanCount.player1
        p2Bans == s.currentPhase2BanCount.player2
        flipped == IF s.currentPlayer = 1 THEN 2 ELSE 1
    IN  IF p1Bans >= cfg.bansPhase2 /\ p2Bans >= cfg.bansPhase2
        THEN [s EXCEPT !.phase = "pick2", !.currentPlayer = 2]
        ELSE [s EXCEPT !.currentPlayer =
                 IF flipped = 1 /\ p1Bans >= cfg.bansPhase2 THEN 2
                 ELSE IF flipped = 2 /\ p2Bans >= cfg.bansPhase2 THEN 1
                 ELSE flipped]

\* advancePick2 with the turn table of pick1 (not mirrored).
advancePick2_NotMirrored(s) ==
    LET p1Picks == s.currentPick2Count.player1
        p2Picks == s.currentPick2Count.player2
        totalPicks == p1Picks + p2Picks
    IN  IF p1Picks >= PickQuota /\ p2Picks >= PickQuota
        THEN [s EXCEPT !.phase = "complete"]
        ELSE [s EXCEPT !.currentPlayer =
                 IF totalPicks = 0 THEN 1
                 ELSE IF totalPicks = 1 THEN 2
                 ELSE IF totalPicks = 2 THEN 2
                 ELSE IF totalPicks = 3 THEN 1
                 ELSE IF totalPicks = 4 THEN 1
                 ELSE IF totalPicks = 5 THEN 2
                 ELSE @]

\* advanceDraftState, case "pick2".
advancePick2(s) ==
    LET p1Picks == s.currentPick2Count.player1
        p2Picks == s.currentPick2Count.player2
        totalPicks == p1Picks + p2Picks
    IN  IF p1Picks >= PickQuota /\ p2Picks >= PickQuota
        THEN [s EXCEPT !.phase = "complete"]
        ELSE [s EXCEPT !.currentPlayer =
                 IF totalPicks = 0 THEN 2
                 ELSE IF totalPicks = 1 THEN 1
                 ELSE IF totalPicks = 2 THEN 1
                 ELSE IF totalPicks = 3 THEN 2
                 ELSE IF totalPicks = 4 THEN 2
                 ELSE IF totalPicks = 5 THEN 1
                 ELSE @]

\* advanceDraftState(), as a function of the session and of the draftConfig it
\* reads when it is called.
advanceDraftState(s, cfg) ==
    IF s = NullDraftState THEN s
    ELSE IF s.phase = "ban1" THEN advanceBan1(s, cfg)
    ELSE IF s.phase = "pick1" THEN advancePick1(s)
    ELSE IF s.phase = "ban2" THEN advanceBan2(s, cfg)
    ELSE IF s.phase = "pick2" THEN advancePick2(s)
    ELSE s

\* BanCheck with the phase check made before the turn check.
BanCheck_PhaseBeforeTurn(sock, characterId) ==
    LET playerNumber == getPlayerNumber(connectedUsers[sock])
    IN  IF playerNumber = 0 THEN NotAPlayer
        ELSE IF currentDraftState = NullDraftState THEN NoActiveSession
        ELSE IF currentDraftState.phase \notin {"ban1", "ban2"} THEN WrongPhaseKind
        ELSE IF currentDraftState.currentPlayer # playerNumber THEN NotYourTurn
        ELSE IF characterId \in IdsOf(currentDraftState.bans) THEN ItemAlreadyBanned
        ELSE Accepted

\* BanCheck without the look-up of the character in bans.
BanCheck_NoBannedCheck(sock, characterId) ==
    LET playerNumber == getPlayerNumber(connectedUsers[sock])
    IN  IF playerNumber = 0 THEN NotAPlayer
        ELSE IF currentDraftState = NullDraftState THEN NoActiveSession
        ELSE IF currentDraftState.currentPlayer # playerNumber THEN NotYourTurn
        ELSE IF currentDraftState.phase \notin {"ban1", "ban2"} THEN WrongPhaseKind
        ELSE Accepted

\* BanCheck without the turn check.
BanCheck_NoTurnCheck(sock, characterId) ==
    LET playerNumber == getPlayerNumber(connectedUsers[sock])
    IN  IF playerNumber = 0 THEN NotAPlayer
        ELSE IF currentDraftState = NullDraftState THEN NoActiveSession
        ELSE IF currentDraftState.phase \notin {"ban1", "ban2"} THEN WrongPhaseKind
        ELSE IF characterId \in IdsOf(currentDraftState.bans) THEN ItemAlreadyBanned
        ELSE Accepted

\* BanCheck that also refuses a ban of a player whose quota of the phase is
\* used up.
BanCheck_QuotaEnforced(sock, characterId) ==
    LET playerNumber == getPlayerNumber(connectedUsers[sock])
        quota ==
            IF currentDraftState.phase = "ban1"
            THEN draftConfig.bansPhase1 +
                    (IF draftConfig.balanceBansPlayer = playerNumber
                     THEN draftConfig.balanceBans ELSE 0)
            ELSE draftConfig.bansPhase2
        used ==
            IF currentDraftState.phase = "ban1"
            THEN Count(currentDraftState.currentPhase1BanCount, playerNumber)
            ELSE Count(currentDraftState.currentPhase2BanCount, playerNumber)
    IN  IF playerNumber = 0 THEN NotAPlayer
        ELSE IF currentDraftState = NullDraftState THEN NoActiveSession
        ELSE IF currentDraftState.currentPlayer # playerNumber THEN NotYourTurn
        ELSE IF currentDraftState.phase \notin {"ban1", "ban2"} THEN WrongPhaseKind
        ELSE IF used >= quota THEN WrongPhaseKind
        ELSE IF characterId \in IdsOf(currentDraftState.bans) THEN ItemAlreadyBanned
        ELSE Accepted

\* The check chain of draft:ban for socket sock (of an authenticated user) and
\* character id: the error of the first failing check, or Accepted.
BanCheck(sock, characterId) ==
    LET playerNumber == getPlayerNumber(connectedUsers[sock])
    IN  IF playerNumber = 0 THEN NotAPlayer
        ELSE IF currentDraftState = NullDraftState THEN NoActiveSession
        ELSE IF currentDraftState.currentPlayer # playerNumber THEN NotYourTurn
        ELSE IF currentDraftState.phase \notin {"ban1", "ban2"} THEN WrongPhaseKind
        ELSE IF characterId \in IdsOf(currentDraftState.bans) THEN ItemAlreadyBanned
        ELSE Accepted

\* PickCheck with the phase check made before the turn check.
PickCheck_PhaseBeforeTurn(sock, characterId) ==
    LET playerNumber == getPlayerNumber(connectedUsers[sock])
    IN  IF playerNumber = 0 THEN NotAPlayer
        ELSE IF currentDraftState = NullDraftState THEN NoActiveSession
        ELSE IF currentDraftState.phase \notin {"pick1", "pick2"} THEN WrongPhaseKind
        ELSE IF currentDraftState.currentPlayer # playerNumber THEN NotYourTurn
        ELSE IF characterId \in IdsOf(currentDraftState.bans) THEN ItemAlreadyBanned
        ELSE IF characterId \in IdsOf(currentDraftState.picks) THEN ItemAlreadyPicked
        ELSE Accepted

\* The check chain of draft:pick.
PickCheck(sock, characterId) ==
    LET playerNumber == getPlayerNumber(connectedUsers[sock])
    IN  IF playerNumber = 0 THEN NotAPlayer
        ELSE IF currentDraftState = NullDraftState THEN NoActiveSession
        ELSE IF currentDraftState.currentPlayer # playerNumber THEN NotYourTurn
        ELSE IF currentDraftState.phase \notin {"pick1", "pick2"} THEN WrongPhaseKind
        ELSE IF characterId \in IdsOf(currentDraftState.bans) THEN ItemAlreadyBanned
        ELSE IF characterId \in IdsOf(currentDraftState.picks) THEN ItemAlreadyPicked
        ELSE Accepted

\* BanApplied that counts every ban in the phase-1 counter.
BanApplied_AlwaysPhase1Counter(s, playerNumber, characterId) ==
    LET phase == IF s.phase = "ban1" THEN "phase1" ELSE "phase2"
        pushed == [s EXCEPT !.bans = Append(@,
                      [characterId |-> characterId, phase |-> phase, bannedBy |-> playerNumber])]
    IN  [pushed EXCEPT !.currentPhase1BanCount = Incr(@, playerNumber)]

\* The session after the mutation part of draft:ban (push, counter), before
\* advanceDraftState.
BanApplied(s, playerNumber, characterId) ==
    LET phase == IF s.phase = "ban1" THEN "phase1" ELSE "phase2"
        pushed == [s EXCEPT !.bans = Append(@,
                      [characterId |-> characterId, phase |-> phase, bannedBy |-> playerNumber])]
    IN  IF s.phase = "ban1"
        THEN [pushed EXCEPT !.currentPhase1BanCount = Incr(@, playerNumber)]
        ELSE [pushed EXCEPT !.currentPhase2BanCount = Incr(@, playerNumber)]

\* PickApplied with a 0-based order (picks.length taken after the push is
\* forgotten: order = picks.length).
PickApplied_OrderFromZero(s, playerNumber, characterId) ==
    LET pushed == [s EXCEPT !.picks = Append(@,
                      [characterId |-> characterId, pickedBy |-> playerNumber,
                       order |-> Len(s.picks)])]
        listed == IF playerNumber = 1
                  THEN [pushed EXCEPT !.player1Picks = Append(@, characterId)]
                  ELSE [pushed EXCEPT !.player2Picks = Append(@, characterId)]
    IN  IF s.phase = "pick1"
        THEN [listed EXCEPT !.currentPick1Count = Incr(@, playerNumber)]
        ELSE [listed EXCEPT !.currentPick2Count = Incr(@, playerNumber)]

\* PickApplied that lists every pick under player 1.
PickApplied_AllToPlayer1(s, playerNumber, characterId) ==
    LET pushed == [s EXCEPT !.picks = Append(@,
                      [characterId |-> characterId, pickedBy |-> playerNumber,
                       order |-> Len(s.picks) + 1])]
        listed == [pushed EXCEPT !.player1Picks = Append(@, characterId)]
    IN  IF s.phase = "pick1"
        THEN [listed EXCEPT !.currentPick1Count = Incr(@, playerNumber)]
        ELSE [listed EXCEPT !.currentPick2Count = Incr(@, playerNumber)]

\* The session after the mutation part of draft:pick.
PickApplied(s, playerNumber, characterId) ==
    LET pushed == [s EXCEPT !.picks = Append(@,
                      [characterId |-> characterId, pickedBy |-> playerNumber,
                       order |-> Len(s.picks) + 1])]
        listed == IF playerNumber = 1
                  THEN [pushed EXCEPT !.player1Picks = Append(@, characterId)]
                  ELSE [pushed EXCEPT !.player2Picks = Append(@, characterId)]
    IN  IF s.phase = "pick1"
        THEN [listed EXCEPT !.currentPick1Count = Incr(@, playerNumber)]
        ELSE [listed EXCEPT !.currentPick2Count = Incr(@, playerNumber)]

\* ----------------------------------------------------------------- inputs
\* The handlers compare character ids for equality only, so the ids a client
\* sends are taken up to renaming: the smallest id of each class (banned only,
\* picked only, banned and picked) and the next id never used in the session.
Min(S) == CHOOSE x \in S : \A y \in S : x <= y
Rep(S) == IF S = {} THEN {} ELSE {Min(S)}
CharacterIds ==
    LET banned == IdsOf(currentDraftState.bans)
        picked == IdsOf(currentDraftState.picks)
    IN  Rep(banned \ picked) \cup Rep(picked \ banned) \cup Rep(banned \cap picked)
        \cup {Cardinality(banned \cup picked) + 1}

\* ---------------------------------------------------------------- actions
Init ==
    /\ connectedUsers = [sock \in Sockets |-> NoUser]
    /\ draftRoom = [player1 |-> NullSeat, player2 |-> NullSeat]
    /\ draftConfig = DefaultConfig
    /\ currentDraftState = NullDraftState
    /\ configChanged = FALSE

\* socket.on("auth:login")
AuthLogin(sock, discordId) ==
    /\ connectedUsers' = [connectedUsers EXCEPT ![sock] = discordId]
    /\ UNCHANGED <<draftRoom, draftConfig, currentDraftState, configChanged>>

\* socket.on("room:join")
RoomJoin(sock, slot) ==
    LET user == connectedUsers[sock]
        seat == [discordId |-> user, socketId |-> sock]
    IN  /\ user # NoUser
        /\ draftRoom' =
              IF slot = "player1"
              THEN IF draftRoom.player1 # NullSeat /\ draftRoom.player1.discordId # user
                   THEN draftRoom
                   ELSE [draftRoom EXCEPT !.player1 = seat]
              ELSE IF slot = "player2"
              THEN IF draftRoom.player2 # NullSeat /\ draftRoom.player2.discordId # user
                   THEN draftRoom
                   ELSE [draftRoom EXCEPT !.player2 = seat]
              ELSE draftRoom
        /\ UNCHANGED <<connectedUsers, draftConfig, currentDraftState, configChanged>>

\* room:leave that also discards the session when a seated player leaves.
RoomLeave_EndsSession(sock) ==
    LET user == connectedUsers[sock]
    IN  /\ user # NoUser
        /\ draftRoom' =
              IF draftRoom.player1 # NullSeat /\ draftRoom.player1.discordId = user
              THEN [draftRoom EXCEPT !.player1 = NullSeat]
              ELSE IF draftRoom.player2 # NullSeat /\ draftRoom.player2.discordId = user
              THEN [draftRoom EXCEPT !.player2 = NullSeat]
              ELSE draftRoom
        /\ currentDraftState' =
              IF getPlayerNumber(user) # 0 THEN NullDraftState ELSE currentDraftState
        /\ UNCHANGED <<connectedUsers, draftConfig, configChanged>>

\* socket.on("room:leave")
RoomLeave(sock) ==
    LET user == connectedUsers[sock]
    IN  /\ user # NoUser
        /\ draftRoom' =
              IF draftRoom.player1 # NullSeat /\ draftRoom.player1.discordId = user
              THEN [draftRoom EXCEPT !.player1 = NullSeat]
              ELSE IF draftRoom.player2 # NullSeat /\ draftRoom.player2.discordId = user
              THEN [draftRoom EXCEPT !.player2 = NullSeat]
              ELSE draftRoom
        /\ UNCHANGED <<connectedUsers, draftConfig, currentDraftState, configChanged>>

\* socket.on("config:update"), for a config object that sets the four fields
\* advanceDraftState reads.
ConfigUpdate(sock, config) ==
    LET user == connectedUsers[sock]
    IN  /\ user # NoUser
        /\ IF getPlayerNumber(user) = 0
           THEN UNCHANGED <<draftConfig, configChanged>>
           ELSE /\ draftConfig' = config
                /\ configChanged' =
                      (configChanged \/
                         (currentDraftState # NullDraftState /\ config # draftConfig))
        /\ UNCHANGED <<connectedUsers, draftRoom, currentDraftState>>

\* draft:start that is ignored while a draft is under way.
DraftStart_OnlyWhenIdle(sock) ==
    /\ connectedUsers[sock] # NoUser
    /\ currentDraftState.phase \in {"null", "complete"}
    /\ IF draftRoom.player1 = NullSeat \/ draftRoom.player2 = NullSeat
       THEN UNCHANGED <<currentDraftState, configChanged>>
       ELSE /\ currentDraftState' = FreshDraftState
            /\ configChanged' = FALSE
    /\ UNCHANGED <<connectedUsers, draftRoom, draftConfig>>

\* socket.on("draft:start")
DraftStart(sock) ==
    /\ connectedUsers[sock] # NoUser
    /\ IF draftRoom.player1 = NullSeat \/ draftRoom.player2 = NullSeat
       THEN UNCHANGED <<currentDraftState, configChanged>>
       ELSE /\ currentDraftState' = FreshDraftState
            /\ configChanged' = FALSE
    /\ UNCHANGED <<connectedUsers, draftRoom, draftConfig>>

\* socket.on("draft:ban")
DraftBan(sock, characterId) ==
    LET user == connectedUsers[sock]
        playerNumber == getPlayerNumber(user)
    IN  /\ user # NoUser
        /\ currentDraftState' =
              IF BanCheck(sock, characterId) # Accepted
              THEN currentDraftState
              ELSE advanceDraftState(
                       BanApplied(currentDraftState, playerNumber, characterId),
                       draftConfig)
        /\ UNCHANGED <<connectedUsers, draftRoom, draftConfig, configChanged>>

\* draft:pick that records the pick before it looks the character up in bans
\* and picks: a rejected duplicate is already in the session.
DraftPick_PushBeforeLookup(sock, characterId) ==
    LET user == connectedUsers[sock]
        playerNumber == getPlayerNumber(user)
        check == PickCheck(sock, characterId)
    IN  /\ user # NoUser
        /\ currentDraftState' =
              IF check \in {ItemAlreadyBanned, ItemAlreadyPicked}
              THEN [currentDraftState EXCEPT !.picks = Append(@,
                       [characterId |-> characterId, pickedBy |-> playerNumber,
                        order |-> Len(currentDraftState.picks) + 1])]
              ELSE IF check # Accepted
              THEN currentDraftState
              ELSE advanceDraftState(
                       PickApplied(currentDraftState, playerNumber, characterId),
                       draftConfig)
        /\ UNCHANGED <<connectedUsers, draftRoom, draftConfig, configChanged>>

\* socket.on("draft:pick")
DraftPick(sock, characterId) ==
    LET user == connectedUsers[sock]
        playerNumber == getPlayerNumber(user)
    IN  /\ user # NoUser
        /\ currentDraftState' =
              IF PickCheck(sock, characterId) # Accepted
              THEN currentDraftState
              ELSE advanceDraftState(
                       PickApplied(currentDraftState, playerNumber, characterId),
                       draftConfig)
        /\ UNCHANGED <<connectedUsers, draftRoom, draftConfig, configChanged>>

\* draft:reset that only a seated player may send.
DraftReset_SeatedOnly(sock) ==
    /\ connectedUsers[sock] # NoUser
    /\ getPlayerNumber(connectedUsers[sock]) # 0
    /\ currentDraftState' = NullDraftState
    /\ UNCHANGED <<connectedUsers, draftRoom, draftConfig, configChanged>>

\* socket.on("draft:reset")
DraftReset(sock) ==
    /\ connectedUsers[sock] # NoUser
    /\ currentDraftState' = NullDraftState
    /\ UNCHANGED <<connectedUsers, draftRoom, draftConfig, configChanged>>

\* socket.on("disconnect")
Disconnect(sock) ==
    /\ connectedUsers' = [connectedUsers EXCEPT ![sock] = NoUser]
    /\ draftRoom' =
          IF connectedUsers[sock] = NoUser THEN draftRoom
          ELSE IF draftRoom.player1 # NullSeat /\ draftRoom.player1.socketId = sock
          THEN [draftRoom EXCEPT !.player1 = NullSeat]
          ELSE IF draftRoom.player2 # NullSeat /\ draftRoom.player2.socketId = sock
          THEN [draftRoom EXCEPT !.player2 = NullSeat]
          ELSE draftRoom
    /\ UNCHANGED <<draftConfig, currentDraftState, configChanged>>

Next ==
    \/ \E sock \in Sockets : AuthLogin(sock, UserOf(sock))
    \/ \E sock \in Sockets, slot \in Slots : RoomJoin(sock, slot)
    \/ \E sock \in Sockets : RoomLeave(sock)
    \/ \E sock \in Sockets, config \in Configs : ConfigUpdate(sock, config)
    \/ \E sock \in Sockets : DraftStart(sock)
    \/ \E sock \in Sockets, characterId \in CharacterIds : DraftBan(sock, characterId)
    \/ \E sock \in Sockets, characterId \in CharacterIds : DraftPick(sock, characterId)
    \/ \E sock \in Sockets : DraftReset(sock)
    \/ \E sock \in Sockets : Disconnect(sock)

Spec == Init /\ [][Next]_vars

\* ------------------------------------------------- one draft, run to its end
\* The states right after a draft:start accepted with every client logged in,
\* the two seats held by two different clients, and any configuration.
InitDraft ==
    /\ connectedUsers = [sock \in Sockets |-> UserOf(sock)]
    /\ draftRoom \in
          {[player1 |-> [discordId |-> UserOf(a), socketId |-> a],
            player2 |-> [discordId |-> UserOf(b), socketId |-> b]] :
              <<a, b>> \in {ab \in Sockets \X Sockets : ab[1] # ab[2]}}
    /\ draftConfig \in Configs
    /\ currentDraftState = FreshDraftState
    /\ configChanged = FALSE

\* The draft events alone: no login, seat, configuration, start or reset event.
NextDraft ==
    \/ \E sock \in Sockets, characterId \in CharacterIds : DraftBan(sock, characterId)
    \/ \E sock \in Sockets, characterId \in CharacterIds : DraftPick(sock, characterId)

\* The player whose turn it is keeps sending valid actions: an accepted ban or
\* pick that stays possible is eventually made.
SpecDraft == InitDraft /\ [][NextDraft]_vars /\ WF_vars(NextDraft)

\* ----------------------------------------------------------------- claims
\* Shorthands for the claims below.
Session == currentDraftState
HasSession == currentDraftState # NullDraftState
BothSeated == draftRoom.player1 # NullSeat /\ draftRoom.player2 # NullSeat
\* The sockets whose user is authenticated and holds a seat.
SeatedSockets ==
    {sock \in Sockets :
        connectedUsers[sock] # NoUser /\ getPlayerNumber(connectedUsers[sock]) # 0}
\* need(p): the phase-1 ban quota of player p.
Need(cfg, p) ==
    IF p = cfg.balanceBansPlayer THEN cfg.bansPhase1 + cfg.balanceBans ELSE cfg.bansPhase1
\* The phase that follows a phase in the fixed order; complete follows itself.
PhaseSuccessor(phase) ==
    IF phase = "ban1" THEN "pick1"
    ELSE IF phase = "pick1" THEN "ban2"
    ELSE IF phase = "ban2" THEN "pick2"
    ELSE "complete"
NoDuplicateId(records) ==
    \A i, j \in 1..Len(records) : i # j => records[i].characterId # records[j].characterId

\* C1: within one session (every step that is not a draft:start and that has
\* a session before and after it), phase either stays or moves to its
\* immediate successor in ban1 -> pick1 -> ban2 -> pick2 -> complete; it never
\* moves backward, never skips a phase and never leaves complete.
C1_PhaseOnlyForward ==
    [][(/\ HasSession
        /\ currentDraftState' # NullDraftState
        /\ ~(\E sock \in Sockets : DraftStart(sock)))
       => \/ currentDraftState'.phase = currentDraftState.phase
          \/ currentDraftState'.phase = PhaseSuccessor(currentDraftState.phase)]_vars

\* A session that went through all five phases.
C1_Witness == Session.phase = "complete"

\* C2: with a session, no character id is both in bans and in picks.
C2_BansPicksDisjoint ==
    HasSession => IdsOf(Session.bans) \cap IdsOf(Session.picks) = {}

\* C3: with a session, bans holds no character id twice and picks holds no
\* character id twice.
C3_NoDuplicateIds ==
    HasSession => NoDuplicateId(Session.bans) /\ NoDuplicateId(Session.picks)

\* Bans of both ban phases and picks of both players in both pick phases.
C3_Witness ==
    /\ \E i, j \in 1..Len(Session.bans) :
          Session.bans[i].phase = "phase1" /\ Session.bans[j].phase = "phase2"
    /\ Session.currentPick2Count.player1 >= 1
    /\ Session.currentPick2Count.player2 >= 1

\* C4: in a session whose configuration was not changed since draft:start,
\* each player's phase-1 ban counter is at most need(p) and each player's
\* phase-2 ban counter is at most bansPhase2.
C4_BanCountersWithinQuota ==
    (HasSession /\ ~configChanged) =>
        \A p \in Players :
            /\ Count(Session.currentPhase1BanCount, p) <= Need(draftConfig, p)
            /\ Count(Session.currentPhase2BanCount, p) <= draftConfig.bansPhase2

\* C5: each of the four pick counter cells is at most 3, and when phase is
\* complete each cell is exactly 3 and picks has 12 entries, 6 per player.
C5_PickCountersWithinQuota ==
    /\ \A p \in Players :
          /\ Count(Session.currentPick1Count, p) <= 3
          /\ Count(Session.currentPick2Count, p) <= 3
    /\ Session.phase = "complete" =>
          /\ \A p \in Players :
                /\ Count(Session.currentPick1Count, p) = 3
                /\ Count(Session.currentPick2Count, p) = 3
                /\ Cardinality({i \in 1..Len(Session.picks) :
                                   Session.picks[i].pickedBy = p}) = 6
          /\ Len(Session.picks) = 12

\* A complete draft with its twelve picks.
C5_Witness == Session.phase = "complete" /\ Len(Session.picks) = 12
\* The sockets of authenticated users: the senders whose events the draft
\* handlers process (a handler returns at once when the socket has no user).
Authenticated == {sock \in Sockets : connectedUsers[sock] # NoUser}
\* The errors a draft:ban and a draft:pick are rejected with.
RejectionErrors ==
    {NotAPlayer, NoActiveSession, NotYourTurn, WrongPhaseKind,
     ItemAlreadyBanned, ItemAlreadyPicked}
\* The error of the first failing check of a list of <<fails, error>> pairs,
\* Accepted when no check fails.
FirstFailing(checks) ==
    IF \A i \in 1..Len(checks) : ~checks[i][1] THEN Accepted
    ELSE checks[Min({i \in 1..Len(checks) : checks[i][1]})][2]
\* A session as draft:start must leave it.
IsFreshSession(s) ==
    /\ s.phase = "ban1" /\ s.currentPlayer = 1
    /\ s.bans = <<>> /\ s.picks = <<>> /\ s.player1Picks = <<>> /\ s.player2Picks = <<>>
    /\ \A p \in Players :
          /\ Count(s.currentPhase1BanCount, p) = 0
          /\ Count(s.currentPhase2BanCount, p) = 0
          /\ Count(s.currentPick1Count, p) = 0
          /\ Count(s.currentPick2Count, p) = 0

\* C6: every rejected operation leaves the session as it was: no step that
\* changes currentDraftState (any field of it, or its existence) is a
\* draft:start sent while a seat is empty, or a draft:ban or draft:pick whose
\* check chain ends in one of the six errors.
C6_RejectionLeavesSession ==
    [][currentDraftState' # currentDraftState =>
          \A sock \in Sockets :
              /\ ~(DraftStart(sock) /\ ~BothSeated)
              /\ \A characterId \in CharacterIds :
                    /\ ~(DraftBan(sock, characterId)
                           /\ BanCheck(sock, characterId) \in RejectionErrors)
                    /\ ~(DraftPick(sock, characterId)
                           /\ PickCheck(sock, characterId) \in RejectionErrors)]_vars

\* A session with an empty seat (a draft:start would be rejected) in which the
\* seated player's pick of an already picked character and their ban are
\* rejected, and so is the pick of a sender who holds no seat.
C6_Witness ==
    /\ HasSession /\ ~BothSeated
    /\ \E sock \in Authenticated, characterId \in CharacterIds :
          /\ PickCheck(sock, characterId) = ItemAlreadyPicked
          /\ BanCheck(sock, characterId) = WrongPhaseKind
    /\ \E sock \in Authenticated, characterId \in CharacterIds :
          PickCheck(sock, characterId) = NotAPlayer

\* C7 as stated: once phase is complete, every ban and pick attempt of a seated
\* player fails with WrongPhaseKind.
C7_CompleteRejectsWithWrongPhaseKind ==
    Session.phase = "complete" =>
        \A sock \in SeatedSockets, characterId \in CharacterIds :
            /\ BanCheck(sock, characterId) = WrongPhaseKind
            /\ PickCheck(sock, characterId) = WrongPhaseKind

\* C7 amended: once phase is complete, every ban and pick attempt of a seated
\* player is rejected and leaves the session unchanged; the error is
\* WrongPhaseKind when the actor is the player currentPlayer was left with,
\* and NotYourTurn when the actor is the other player.
C7_CompleteRejectsEveryAttempt ==
    /\ [](Session.phase = "complete" =>
            \A sock \in SeatedSockets, characterId \in CharacterIds :
                LET expected ==
                        IF getPlayerNumber(connectedUsers[sock]) = Session.currentPlayer
                        THEN WrongPhaseKind ELSE NotYourTurn
                IN  /\ BanCheck(sock, characterId) = expected
                    /\ PickCheck(sock, characterId) = expected)
    /\ [][Session.phase = "complete" =>
            \A sock \in SeatedSockets, characterId \in CharacterIds :
                (DraftBan(sock, characterId) \/ DraftPick(sock, characterId))
                    => currentDraftState' = currentDraftState]_vars

\* A complete draft with both players seated on their own sockets.
C7_Witness ==
    /\ Session.phase = "complete"
    /\ \E sock1, sock2 \in SeatedSockets :
          /\ getPlayerNumber(connectedUsers[sock1]) = Session.currentPlayer
          /\ getPlayerNumber(connectedUsers[sock2]) # Session.currentPlayer

\* C8: the answer to a ban or pick of an authenticated sender is the error of
\* the first failing check in the order NotAPlayer, NoActiveSession,
\* NotYourTurn, WrongPhaseKind, ItemAlreadyBanned and, for picks only,
\* ItemAlreadyPicked; the attempt is accepted iff no check fails, and only an
\* accepted attempt changes the session.
C8_FirstFailingCheck ==
    /\ [](\A sock \in Authenticated, characterId \in CharacterIds :
            LET actor == getPlayerNumber(connectedUsers[sock])
                common ==
                    << <<actor = 0, NotAPlayer>>,
                       <<~HasSession, NoActiveSession>>,
                       <<Session.currentPlayer # actor, NotYourTurn>> >>
                banned == <<characterId \in IdsOf(Session.bans), ItemAlreadyBanned>>
                picked == <<characterId \in IdsOf(Session.picks), ItemAlreadyPicked>>
            IN  /\ BanCheck(sock, characterId) =
                      FirstFailing(common \o
                          << <<Session.phase \notin {"ban1", "ban2"}, WrongPhaseKind>>,
                             banned >>)
                /\ PickCheck(sock, characterId) =
                      FirstFailing(common \o
                          << <<Session.phase \notin {"pick1", "pick2"}, WrongPhaseKind>>,
                             banned, picked >>))
    /\ [][currentDraftState' # currentDraftState =>
            \A sock \in Sockets, characterId \in CharacterIds :
                /\ DraftBan(sock, characterId) => BanCheck(sock, characterId) = Accepted
                /\ DraftPick(sock, characterId) => PickCheck(sock, characterId) = Accepted]_vars

\* Phase pick1 with a banned character: the current player's ban fails with
\* WrongPhaseKind and their pick of the banned character with ItemAlreadyBanned.
C8_Witness ==
    /\ Session.phase = "pick1"
    /\ \E sock \in SeatedSockets, characterId \in CharacterIds :
          /\ getPlayerNumber(connectedUsers[sock]) = Session.currentPlayer
          /\ BanCheck(sock, characterId) = WrongPhaseKind
          /\ PickCheck(sock, characterId) = ItemAlreadyBanned

\* C9: whenever both seats are occupied, a draft:start of any authenticated
\* sender can be taken in any session state (none, any phase, complete), and
\* every such draft:start leaves a fresh session: phase ban1, currentPlayer 1,
\* empty bans, picks, player1Picks and player2Picks, all eight counters 0.
C9_StartYieldsFreshSession ==
    /\ [](\A sock \in Authenticated :
            BothSeated => ENABLED (DraftStart(sock) /\ IsFreshSession(currentDraftState')))
    /\ [][\A sock \in Sockets :
            (DraftStart(sock) /\ BothSeated) => IsFreshSession(currentDraftState')]_vars

\* Both seats occupied and a complete draft that a draft:start would replace.
C9_Witness == BothSeated /\ Authenticated # {} /\ Session.phase = "complete"

\* C10: a draft:reset of any authenticated sender, seated or not, can be taken
\* in every session state and leaves no session; while there is no session,
\* every ban and pick attempt of a seated player fails with NoActiveSession,
\* and only a draft:start brings a session back.
C10_ResetLeavesNoSession ==
    /\ [](\A sock \in Authenticated :
            ENABLED (DraftReset(sock) /\ currentDraftState' = NullDraftState))
    /\ [][\A sock \in Sockets :
            DraftReset(sock) => currentDraftState' = NullDraftState]_vars
    /\ [](~HasSession =>
            \A sock \in SeatedSockets, characterId \in CharacterIds :
                /\ BanCheck(sock, characterId) = NoActiveSession
                /\ PickCheck(sock, characterId) = NoActiveSession)
    /\ [][(~HasSession /\ currentDraftState' # NullDraftState)
            => \E sock \in Sockets : DraftStart(sock)]_vars

\* No session after a draft:reset (the configuration was changed during the
\* session that was reset), with both players seated.
C10_Witness == ~HasSession /\ configChanged /\ Cardinality(SeatedSockets) = 2

\* The turn order of the six picks of pick1 and of pick2.
Pick1Turns == <<1, 2, 2, 1, 1, 2>>
Pick2Turns == <<2, 1, 1, 2, 2, 1>>
\* The configuration is the one draft:start found (no change during the session).
FixedConfig == HasSession /\ ~configChanged
\* The players of the phase-1 bans, in the order the bans were made.
Phase1Banners ==
    [i \in 1..Cardinality({k \in 1..Len(Session.bans) : Session.bans[k].phase = "phase1"})
        |-> Session.bans[i].bannedBy]
IsPrefix(a, b) == Len(a) <= Len(b) /\ \A i \in 1..Len(a) : a[i] = b[i]

\* C11: with an unchanged configuration and bansPhase1 >= 1, the session is in
\* ban1 exactly while some player's phase-1 ban count is below need(p): in ban1
\* no count is above need(p) and one is below, and past ban1 every count equals
\* need(p). With bansPhase1 = 1, balanceBans = 1, balanceBansPlayer = 1 the
\* phase-1 bans are made by players 1, 2, 1 in that order.
C11_Ban1EndsAtQuota ==
    (FixedConfig /\ draftConfig.bansPhase1 >= 1) =>
        /\ Session.phase = "ban1" =>
              /\ \A p \in Players :
                    Count(Session.currentPhase1BanCount, p) <= Need(draftConfig, p)
              /\ \E p \in Players :
                    Count(Session.currentPhase1BanCount, p) < Need(draftConfig, p)
        /\ Session.phase # "ban1" =>
              \A p \in Players :
                  Count(Session.currentPhase1BanCount, p) = Need(draftConfig, p)
        /\ (draftConfig.bansPhase1 = 1 /\ draftConfig.balanceBans = 1
              /\ draftConfig.balanceBansPlayer = 1) =>
              /\ IsPrefix(Phase1Banners, <<1, 2, 1>>)
              /\ Session.phase # "ban1" => Phase1Banners = <<1, 2, 1>>

\* pick1 has begun after the three bans of bansPhase1 = 1, balanceBans = 1,
\* balanceBansPlayer = 1.
C11_Witness ==
    /\ FixedConfig /\ Session.phase = "pick1"
    /\ draftConfig.bansPhase1 = 1 /\ draftConfig.balanceBans = 1
    /\ draftConfig.balanceBansPlayer = 1
    /\ Len(Session.bans) = 3

\* C12: in pick1, after k accepted picks (k in 0..5) currentPlayer is the
\* (k+1)-th entry of 1,2,2,1,1,2; the first six picks of a session are made by
\* the players of that table in that order, whatever the items and the
\* configuration; and the sixth pick of pick1 moves the phase to ban2.
C12_Pick1TurnOrder ==
    /\ [](/\ Session.phase = "pick1" =>
                /\ Len(Session.picks) <= 5
                /\ Session.currentPlayer = Pick1Turns[Len(Session.picks) + 1]
          /\ \A i \in 1..Len(Session.picks) :
                i <= 6 => Session.picks[i].pickedBy = Pick1Turns[i])
    /\ [][(Session.phase = "pick1" /\ Len(currentDraftState'.picks) = 6)
             => currentDraftState'.phase = "ban2"]_vars

\* ban2 reached after the six picks of pick1, under a configuration with
\* balance bans.
C12_Witness ==
    /\ Session.phase = "ban2" /\ Len(Session.picks) = 6
    /\ draftConfig.balanceBans = 1

\* C13: in pick2, after k accepted pick2 picks (k in 0..5) currentPlayer is
\* the (k+1)-th entry of 2,1,1,2,2,1; picks 7 to 12 of a session are made by
\* the players of that table in that order; and the phase is complete exactly
\* when both phase-2 pick counts have reached 3.
C13_Pick2TurnOrder ==
    HasSession =>
        /\ Session.phase = "pick2" =>
              /\ Len(Session.picks) \in 6..11
              /\ Session.currentPlayer = Pick2Turns[Len(Session.picks) - 6 + 1]
        /\ \A i \in 1..Len(Session.picks) :
              i > 6 => Session.picks[i].pickedBy = Pick2Turns[i - 6]
        /\ Session.phase = "complete" <=>
              /\ Session.currentPick2Count.player1 >= 3
              /\ Session.currentPick2Count.player2 >= 3

\* The last turn of pick2 has been taken.
C13_Witness ==
    /\ Session.phase = "complete"
    /\ Session.currentPick2Count = [player1 |-> 3, player2 |-> 3]
    /\ Session.picks[12].pickedBy = 1

\* The player number of the user of a socket (0 when not seated).
PlayerOf(sock) == getPlayerNumber(connectedUsers[sock])
Last(seq) == seq[Len(seq)]

\* C14: an accepted ban or pick is made by the player whose number is
\* currentPlayer in the state before the event; in any state the attempts that
\* would be accepted all come from currentPlayer, so at most one player can be
\* accepted; and with a session, a ban or pick attempt of a seated player who
\* is not currentPlayer gets NotYourTurn and changes nothing.
C14_TurnEnforcement ==
    /\ [](HasSession =>
            \A sock \in Sockets : \A characterId \in CharacterIds :
                /\ (connectedUsers[sock] # NoUser
                      /\ (\/ BanCheck(sock, characterId) = Accepted
                          \/ PickCheck(sock, characterId) = Accepted))
                   => PlayerOf(sock) = Session.currentPlayer
                /\ (sock \in SeatedSockets /\ PlayerOf(sock) # Session.currentPlayer)
                   => /\ BanCheck(sock, characterId) = NotYourTurn
                      /\ PickCheck(sock, characterId) = NotYourTurn)
    /\ [][/\ (HasSession /\ Len(currentDraftState'.bans) = Len(Session.bans) + 1)
             => Last(currentDraftState'.bans).bannedBy = Session.currentPlayer
          /\ (HasSession /\ Len(currentDraftState'.picks) = Len(Session.picks) + 1)
             => Last(currentDraftState'.picks).pickedBy = Session.currentPlayer
          /\ currentDraftState' # currentDraftState =>
                \A sock \in Sockets : \A characterId \in CharacterIds :
                    /\ BanCheck(sock, characterId) = NotYourTurn
                          => ~DraftBan(sock, characterId)
                    /\ PickCheck(sock, characterId) = NotYourTurn
                          => ~DraftPick(sock, characterId)]_vars

\* Both players are connected in pick1 after a first pick: the attempt of one
\* would be accepted and the same attempt of the other gets NotYourTurn.
C14_Witness ==
    /\ Session.phase = "pick1" /\ Len(Session.picks) >= 1
    /\ \E a, b \in SeatedSockets : \E characterId \in CharacterIds :
          /\ PickCheck(a, characterId) = Accepted
          /\ PickCheck(b, characterId) = NotYourTurn

\* C15: while a session is in one of the phases ban1 .. pick2, no step changes
\* the draft configuration.
C15_ConfigFrozenDuringSession ==
    [][Session.phase \in {"ban1", "pick1", "ban2", "pick2"}
          => draftConfig' = draftConfig]_vars

\* C16: the step that changes phase from ban1 to pick1 sets currentPlayer to 1,
\* the step from pick1 to ban2 sets it to 1 and the step from ban2 to pick2
\* sets it to 2, whoever acted last and whatever the balance-ban settings; with
\* an unchanged configuration of bansPhase1 = 1 and balanceBans = 0 the ban1
\* bans are made by players 1, 2 in that order.
C16_FirstTurnOfPhase ==
    /\ [][/\ (Session.phase = "ban1" /\ currentDraftState'.phase = "pick1")
             => currentDraftState'.currentPlayer = 1
          /\ (Session.phase = "pick1" /\ currentDraftState'.phase = "ban2")
             => currentDraftState'.currentPlayer = 1
          /\ (Session.phase = "ban2" /\ currentDraftState'.phase = "pick2")
             => currentDraftState'.currentPlayer = 2]_vars
    /\ []((FixedConfig /\ draftConfig.bansPhase1 = 1 /\ draftConfig.balanceBans = 0)
            => /\ IsPrefix(Phase1Banners, <<1, 2>>)
               /\ Session.phase # "ban1" => Phase1Banners = <<1, 2>>)

\* pick2 begins with player 2 although player 1 made the last ban of ban2.
C16_Witness ==
    /\ Session.phase = "pick2" /\ Len(Session.picks) = 6
    /\ Session.currentPlayer = 2
    /\ Len(Session.bans) >= 1 /\ Last(Session.bans).bannedBy = 1

\* C17: with an unchanged configuration, once a ban of the phase has been
\* accepted and the phase is still ban1 (resp. ban2), currentPlayer's ban count
\* of that phase is below need(currentPlayer) (resp. bansPhase2).
C17_SkipOnDone ==
    FixedConfig =>
        /\ (Session.phase = "ban1"
              /\ \E i \in 1..Len(Session.bans) : Session.bans[i].phase = "phase1")
           => Count(Session.currentPhase1BanCount, Session.currentPlayer)
                 < Need(draftConfig, Session.currentPlayer)
        /\ (Session.phase = "ban2"
              /\ \E i \in 1..Len(Session.bans) : Session.bans[i].phase = "phase2")
           => Count(Session.currentPhase2BanCount, Session.currentPlayer)
                 < draftConfig.bansPhase2

\* Player 2 has just banned and keeps the turn for the balance ban, player 1
\* being done.
C17_Witness ==
    /\ FixedConfig /\ Session.phase = "ban1"
    /\ Len(Session.bans) = 2 /\ Last(Session.bans).bannedBy = 2
    /\ Session.currentPlayer = 2
    /\ Count(Session.currentPhase1BanCount, 1) = Need(draftConfig, 1)

\* C18: the i-th entry of picks has order = i.
C18_PickOrderIsIndex ==
    \A i \in 1..Len(Session.picks) : Session.picks[i].order = i

\* Picks of pick1 and of pick2 in one session.
C18_Witness ==
    /\ Session.phase = "pick2" /\ Len(Session.picks) >= 8
    /\ Session.picks[8].order = 8

\* The positions of picks made by player p.
PicksBy(p) == {i \in 1..Len(Session.picks) : Session.picks[i].pickedBy = p}
\* The per-player list of player p.
PlayerPicks(p) == IF p = 1 THEN Session.player1Picks ELSE Session.player2Picks

\* C19: playerNPicks is the sequence of the character ids of the picks entries
\* with pickedBy = N, in the same order (the k-th pick of player N in picks is
\* the k-th entry of playerNPicks, and the list has no other entry); the two
\* lengths add up to len(picks) and the two lists share no id.
C19_PlayerPicksInSync ==
    /\ \A p \in Players :
          /\ Len(PlayerPicks(p)) = Cardinality(PicksBy(p))
          /\ \A i \in PicksBy(p) :
                PlayerPicks(p)[Cardinality({k \in PicksBy(p) : k <= i})]
                    = Session.picks[i].characterId
    /\ Len(Session.player1Picks) + Len(Session.player2Picks) = Len(Session.picks)
    /\ {Session.player1Picks[i] : i \in 1..Len(Session.player1Picks)}
          \cap {Session.player2Picks[i] : i \in 1..Len(Session.player2Picks)} = {}

\* Four picks of pick1, interleaved 1, 2, 2, 1.
C19_Witness ==
    /\ Session.phase = "pick1"
    /\ Len(Session.player1Picks) = 2 /\ Len(Session.player2Picks) = 2

\* The eight counter cells of a session.
CounterCells(s) ==
    <<s.currentPhase1BanCount.player1, s.currentPhase1BanCount.player2,
      s.currentPhase2BanCount.player1, s.currentPhase2BanCount.player2,
      s.currentPick1Count.player1, s.currentPick1Count.player2,
      s.currentPick2Count.player1, s.currentPick2Count.player2>>
\* The cell of (phase, player).
CellOf(phase, p) ==
    (IF phase = "ban1" THEN 0 ELSE IF phase = "ban2" THEN 2
     ELSE IF phase = "pick1" THEN 4 ELSE 6) + p
BansBy(label, p) ==
    {i \in 1..Len(Session.bans) :
        Session.bans[i].phase = label /\ Session.bans[i].bannedBy = p}

\* C20: an accepted ban or pick adds 1 to the counter cell of (phase before
\* the action, acting player) and leaves the other seven cells as they were;
\* no cell decreases in a step that keeps the session; the phase-k ban counter
\* of p is the number of bans records labelled phasek with bannedBy = p, and
\* the two pick counters of p add up to the number of picks with pickedBy = p.
C20_CountersFollowRecords ==
    /\ [][currentDraftState' # currentDraftState =>
            /\ (HasSession /\ Len(currentDraftState'.bans) = Len(Session.bans) + 1)
               => CounterCells(currentDraftState') =
                     [CounterCells(Session) EXCEPT
                         ![CellOf(Session.phase, Last(currentDraftState'.bans).bannedBy)]
                             = @ + 1]
            /\ (HasSession /\ Len(currentDraftState'.picks) = Len(Session.picks) + 1)
               => CounterCells(currentDraftState') =
                     [CounterCells(Session) EXCEPT
                         ![CellOf(Session.phase, Last(currentDraftState'.picks).pickedBy)]
                             = @ + 1]
            /\ (/\ HasSession /\ currentDraftState' # NullDraftState
                /\ ~(\E sock \in Sockets : DraftStart(sock)))
               => \A k \in 1..8 :
                     CounterCells(currentDraftState')[k] >= CounterCells(Session)[k]]_vars
    /\ [](\A p \in Players :
            /\ Count(Session.currentPhase1BanCount, p) = Cardinality(BansBy("phase1", p))
            /\ Count(Session.currentPhase2BanCount, p) = Cardinality(BansBy("phase2", p))
            /\ Count(Session.currentPick1Count, p) + Count(Session.currentPick2Count, p)
                  = Cardinality(PicksBy(p)))

\* ban2 after a full pick1, with a phase-2 ban counted for player 1 only.
C20_Witness ==
    /\ Session.phase = "ban2"
    /\ Session.currentPhase2BanCount = [player1 |-> 1, player2 |-> 0]
    /\ Session.currentPick1Count = [player1 |-> 3, player2 |-> 3]

\* C21: a session comes into existence only by a draft:start sent with both
\* seats taken, and such a draft:start always leaves a session; a session ceases
\* to exist only by a draft:reset, and a draft:reset always leaves none; every
\* other step (ban, pick, config:update, room:join, room:leave, disconnect)
\* with a session keeps that session, its bans and picks only extended; and a
\* session in phase complete is still a session.
C21_SessionOnlyByStartAndReset ==
    /\ [][/\ (~HasSession /\ currentDraftState' # NullDraftState)
             => /\ \E sock \in Sockets : DraftStart(sock)
                /\ BothSeated
                /\ currentDraftState' = FreshDraftState
          /\ (HasSession /\ currentDraftState' = NullDraftState)
             => \E sock \in Sockets : DraftReset(sock)
          /\ (BothSeated /\ \E sock \in Sockets : DraftStart(sock))
             => currentDraftState' = FreshDraftState
          /\ (\E sock \in Sockets : DraftReset(sock))
             => currentDraftState' = NullDraftState
          /\ (/\ HasSession
              /\ ~(\E sock \in Sockets : DraftStart(sock))
              /\ ~(\E sock \in Sockets : DraftReset(sock)))
             => /\ currentDraftState' # NullDraftState
                /\ IsPrefix(Session.bans, currentDraftState'.bans)
                /\ IsPrefix(Session.picks, currentDraftState'.picks)
                /\ currentDraftState' # currentDraftState
                   => Len(currentDraftState'.bans) + Len(currentDraftState'.picks)
                         = Len(Session.bans) + Len(Session.picks) + 1]_vars
    /\ [](Session.phase = "complete" => HasSession)

\* A complete session that outlived both of its players' seats.
C21_Witness ==
    /\ Session.phase = "complete"
    /\ draftRoom.player1 = NullSeat /\ draftRoom.player2 = NullSeat

\* The ids no ban or pick of the session has used, among those a client sends.
UnusedIds == CharacterIds \ (IdsOf(Session.bans) \cup IdsOf(Session.picks))

\* C22: in a draft with an unchanged configuration (quotas from 0 up), two
\* seats held by two different connected identities and no start, reset, seat
\* or configuration event, where an accepted action that stays possible is
\* eventually made, the session reaches phase complete; and in every state
\* before complete the current player's ban (in a ban phase) or pick (in a pick
\* phase) of an unused id is accepted.
C22_DraftTerminates ==
    /\ [](Session.phase # "complete" =>
            /\ UnusedIds # {}
            /\ \E sock \in Sockets :
                  /\ PlayerOf(sock) = Session.currentPlayer
                  /\ \A characterId \in UnusedIds :
                        IF Session.phase \in {"ban1", "ban2"}
                        THEN BanCheck(sock, characterId) = Accepted
                        ELSE PickCheck(sock, characterId) = Accepted)
    /\ <>(Session.phase = "complete")

\* A draft run to its end under ban quotas of 0 in both phases.
C22_Witness ==
    /\ Session.phase = "complete"
    /\ draftConfig.bansPhase1 = 0 /\ draftConfig.bansPhase2 = 0
    /\ draftConfig.balanceBans = 0

\* C23: when both seats are occupied, they are occupied by two different
\* Discord identities.
C23_SeatsHeldByDifferentIdentities ==
    BothSeated => draftRoom.player1.discordId # draftRoom.player2.discordId

====
